---- MODULE Spec2Model ----
(***************************************************************************)
(* Model of create_generator_model.py: a Blender (bpy) script that clears  *)
(* the scene, defines 13 materials, builds the generator from primitives,  *)
(* adds cables, camera and lights, sets the render parameters and exports  *)
(* the scene to a .glb file.                                               *)
(*                                                                         *)
(* Fixed-point units.  Lengths in the script (sizes, radii, coordinates)  *)
(* are integers in 1e-6 m; a scale factor such as size/2 is then the      *)
(* integer size \div 2 in units of 1e-6.  Mesh dimensions are integers in  *)
(* 1e-9 m.  Rotations are degrees about x, y, z.                           *)
(*                                                                         *)
(* Host behaviour the script relies on is modelled where the script calls  *)
(* it: select_all/delete act on selectable objects only, object names are  *)
(* unique (a clash gives the newly named object a numeric suffix),         *)
(* bpy.data collections iterate in name order, primitive_cube_add(size=1)  *)
(* makes a cube of edge 1, and transform_apply bakes location, rotation    *)
(* and scale of the selected object into its mesh (all three default to    *)
(* True), leaving the object at the identity transform.                    *)
(***************************************************************************)
EXTENDS Integers, Sequences, FiniteSets, TLC

\* ---------------------------------------------------------------- bounds
\* Largest number of objects in the scene before the script starts.
MaxPre == 2

\* ------------------------------------------------------ program constants
num_magnets == 8
num_coils == 4
num_fins == 4
shaft_height == 120000
disk_radius == 80000
disk_thickness == 10000
mag_size == 20000
coil_major == 55000
coil_minor == 12000
pcb_x == 90000
pcb_y == 0 - 50000

MatNames ==
  << "Wood", "Steel", "MagnetRed", "MagnetBlue", "Copper", "CoilYellow",
     "Plastic", "PCB", "BatteryBlue", "InverterGray", "CableRed",
     "CableBlack", "HeatSink" >>

\* ------------------------------------------------------------ vectors
Zero3 == <<0, 0, 0>>
One3 == <<1000000, 1000000, 1000000>>
VAdd(a, b) == <<a[1] + b[1], a[2] + b[2], a[3] + b[3]>>
VSub(a, b) == <<a[1] - b[1], a[2] - b[2], a[3] - b[3]>>

\* cos and sin of k*45 degrees, times 10^6 (math.cos / math.sin on the
\* angles the loops produce).
CosE6(k) ==
  LET r == k % 8 IN
  CASE r = 0 -> 1000000
    [] r = 1 -> 707107
    [] r = 2 -> 0
    [] r = 3 -> 0 - 707107
    [] r = 4 -> 0 - 1000000
    [] r = 5 -> 0 - 707107
    [] r = 6 -> 0
    [] r = 7 -> 707107
SinE6(k) == CosE6(k + 6)

\* c * radius with c in 10^-6 and radius a whole number of millimetres,
\* rounded towards zero.
TrigTimes(c, radius) ==
  IF c >= 0 THEN (c * (radius \div 1000)) \div 1000
            ELSE 0 - (((0 - c) * (radius \div 1000)) \div 1000)

\* d (1e-9 m) times the scale factor s (1e-6), without leaving 32 bits.
ScaleDim(d, s) == (d \div 1000000) * s + ((d % 1000000) * s) \div 1000000
ScaleDims(d, s) ==
  <<ScaleDim(d[1], s[1]), ScaleDim(d[2], s[2]), ScaleDim(d[3], s[3])>>

\* Edge of the mesh made by primitive_cube_add(size=1), in 1e-9 m.
UnitCubeEdge == 1000000000
UnitCube == <<UnitCubeEdge, UnitCubeEdge, UnitCubeEdge>>

\* ------------------------------------------------------------- names
\* An object name is stem + k (k = 0: no number) + ".00suf" (suf = 0: none).
Nm(stem, k) == [stem |-> stem, k |-> k, suf |-> 0]
startswith(name, prefix) == name.stem = prefix

\* Names that objects present before the script may carry.
PreNames == << Nm("Magnet_", 1), Nm("Coil_", 2), Nm("Cube", 0) >>
PreIds == 1 .. Len(PreNames)
PreLoc == <<100000, 100000, 0>>
FirstNewId == Len(PreNames) + 1

\* -------------------------------------------------------- program order
Order ==
  << "clean_delete", "clean_meshes", "clean_materials", "units", "materials",
     "base", "shaft", "disk", "magnets", "coils", "wires", "pcb", "rect",
     "hs_base", "fins", "battery", "inverter", "cab1", "cab2", "cable_list",
     "cables", "parent_disk", "parent_list", "parent_magnets", "camera",
     "key", "fill", "rim", "world_nodes", "world_bg", "render", "select",
     "export", "print1", "print2", "done" >>

Pos(p) == CHOOSE n \in 1 .. Len(Order) : Order[n] = p

\* The statement skipped: the exporter call is left out.
SuccNoExport(p) ==
  IF p = "select" THEN "print1" ELSE Order[Pos(p) + 1]

\* The statement that follows statement p in the script text.
Succ(p) == Order[Pos(p) + 1]

\* An exception swallowed: execution goes on with the next statement.
OnFaultResume(p) == Order[Pos(p) + 1]

\* Where control goes when the host call of statement p raises: nothing in
\* the script catches it, the script ends.
OnFault(p) == "faulted"

VARIABLES
  pc,        \* statement about to run, "done", or "faulted"
  i,         \* index of the running for loop
  todo,      \* blocks the running orphan loop still has to visit
  list,      \* the list the running cable / parenting loop runs over
  objs,      \* bpy.data.objects: id -> object
  datas,     \* object data blocks (meshes, curves, cameras, lights): id -> block
  mats,      \* bpy.data.materials: name -> material
  nextId,    \* id of the next block the host creates
  py,        \* the script's module-level variables
  scene,     \* unit settings, active camera, world and render settings
  host,      \* what the host offers: Background node, writable export path
  exported,  \* one entry per exporter call: the set of objects written
  printed,   \* lines printed
  faultAt,   \* statement that raised, "" if none
  phaseLog   \* the sections of the script entered so far, in order

vars ==
  << pc, i, todo, list, objs, datas, mats, nextId, py, scene, host, exported,
     printed, faultAt, phaseLog >>

Ids == DOMAIN objs
Range(s) == {s[n] : n \in 1 .. Len(s)}

\* block.users of an object data block and of a material.
DataUsers(d) == Cardinality({o \in Ids : objs[o].data = d})
MatUsers(m) ==
  (IF m \in DOMAIN mats /\ mats[m].fake THEN 1 ELSE 0)
  + Cardinality({d \in DOMAIN datas : m \in Range(datas[d].slots)})

\* Restriction of a function to a subset of its domain.
Restrict(f, S) == [x \in S |-> f[x]]

\* ----------------------------------------------------------------- Init
PreObject(n, sel, par) ==
  [name |-> PreNames[n], type |-> "MESH", selectable |-> sel,
   parent |-> par, loc |-> PreLoc, rot |-> Zero3, scale |-> One3,
   data |-> n, made |-> PreLoc, pre |-> TRUE]

PreData(slots) ==
  [type |-> "MESH", dims |-> UnitCube, slots |-> slots, attr |-> << >>]

NoLink == <<0, 0>>

Init ==
  /\ pc = "clean_delete"
  /\ i = 0
  /\ todo = {}
  /\ list = << >>
  /\ \E pre \in SUBSET PreIds :
       /\ Cardinality(pre) <= MaxPre
       /\ \E sel \in SUBSET pre :
          \E link \in {NoLink} \cup {l \in pre \X pre : l[1] # l[2]} :
          \E useWood \in BOOLEAN :
            /\ objs = [n \in pre |->
                         PreObject(n, n \in sel,
                                   IF link[1] = n THEN link[2] ELSE 0)]
            /\ datas = [n \in pre |->
                          PreData(IF useWood THEN <<"Wood">> ELSE <<>>)]
            /\ \E wood \in {"absent", "nodes", "bare"} :
               \E fake \in BOOLEAN :
                 /\ useWood => wood # "absent"
                 /\ wood = "absent" => ~fake
                 /\ mats = [m \in IF wood = "absent" THEN {} ELSE {"Wood"}
                             |-> [nodes |-> wood = "nodes", fake |-> fake,
                                  set |-> FALSE]]
  /\ nextId = FirstNewId
  /\ py = [base |-> 0, shaft |-> 0, disk |-> 0, pcb |-> 0, hs_base |-> 0,
           battery |-> 0, inverter |-> 0, mag_z |-> 0, coil_z |-> 0]
  /\ scene = [units |-> "NONE", selected |-> {}, camera |-> 0,
              world_nodes |-> FALSE, background |-> "unset",
              render |-> "unset"]
  /\ host \in [background : BOOLEAN, path_ok : BOOLEAN]
  /\ exported = << >>
  /\ printed = << >>
  /\ faultAt = ""
  /\ phaseLog = << >>

\* Entering statement p's section of the script.
Enter(ph) ==
  phaseLog' = IF phaseLog # << >> /\ phaseLog[Len(phaseLog)] = ph
                THEN phaseLog ELSE Append(phaseLog, ph)

\* ---------------------------------------------------------- clean_scene
\* select_all(action='SELECT') then delete(use_global=False): the selectable
\* objects go; an object whose parent goes loses its parent.
Deleted == {o \in Ids : objs[o].selectable}

CleanDelete ==
  /\ pc = "clean_delete"
  /\ LET keep == Ids \ Deleted IN
       objs' = [o \in keep |->
                  IF objs[o].parent \in Deleted
                    THEN [objs[o] EXCEPT !.parent = 0] ELSE objs[o]]
  /\ scene' = [scene EXCEPT !.selected = {}]
  /\ pc' = Succ(pc)
  /\ todo' = {d \in DOMAIN datas : datas[d].type = "MESH"}
  /\ Enter("clear")
  /\ UNCHANGED <<i, list, datas, mats, nextId, py, host, exported, printed,
                 faultAt>>

\* The loop variable does not move on.
RestStuck(S, b) == S

\* The blocks a for loop over a collection still has to visit after b.
Rest(S, b) == S \ {b}

\* Removing the block the iterator stands on: the iterator then reads freed
\* memory; it may go on with the rest or stop early (a crash is a fault).
AfterRemove(S, b) == {Rest(S, b), {}}

\* for block in bpy.data.meshes: if block.users == 0: remove(block)
CleanMeshes ==
  /\ pc = "clean_meshes"
  /\ IF todo = {}
       THEN /\ pc' = Succ(pc)
            /\ todo' = DOMAIN mats
            /\ UNCHANGED datas
       ELSE LET b == CHOOSE d \in todo : \A e \in todo : d <= e IN
            /\ pc' = pc
            /\ IF DataUsers(b) = 0
                 THEN /\ datas' = Restrict(datas, DOMAIN datas \ {b})
                      /\ todo' \in AfterRemove(todo, b)
                 ELSE /\ UNCHANGED datas
                      /\ todo' = Rest(todo, b)
  /\ Enter("clear")
  /\ UNCHANGED <<i, list, objs, mats, nextId, py, scene, host, exported, printed,
                 faultAt>>

\* for block in bpy.data.materials: if block.users == 0: remove(block)
CleanMaterials ==
  /\ pc = "clean_materials"
  /\ IF todo = {}
       THEN /\ pc' = Succ(pc)
            /\ todo' = {}
            /\ UNCHANGED mats
       ELSE LET b == CHOOSE m \in todo : TRUE IN
            /\ pc' = pc
            /\ IF MatUsers(b) = 0
                 THEN /\ mats' = Restrict(mats, DOMAIN mats \ {b})
                      /\ todo' \in AfterRemove(todo, b)
                 ELSE /\ UNCHANGED mats
                      /\ todo' = Rest(todo, b)
  /\ Enter("clear")
  /\ UNCHANGED <<i, list, objs, datas, nextId, py, scene, host, exported, printed,
                 faultAt>>

\* scene.unit_settings.system = 'METRIC'; scale_length = 1.0
SetUnits ==
  /\ pc = "units"
  /\ scene' = [scene EXCEPT !.units = "METRIC"]
  /\ pc' = Succ(pc)
  /\ i' = 1
  /\ Enter("clear")
  /\ UNCHANGED <<todo, list, objs, datas, mats, nextId, py, host, exported,
                 printed, faultAt>>

\* ------------------------------------------------------ create_material
\* mat = materials.get(name); a new material gets use_nodes = True and with
\* it a Principled BSDF node.
Looked(name) ==
  IF name \in DOMAIN mats
    THEN mats[name]
    ELSE [nodes |-> TRUE, fake |-> FALSE, set |-> FALSE]

\* nodes.get("Principled BSDF") is None: principled.inputs raises.
NoPrincipled(name) == ~Looked(name).nodes

CreateMaterials ==
  /\ pc = "materials"
  /\ ~NoPrincipled(MatNames[i])
  /\ LET name == MatNames[i]
         m == [Looked(name) EXCEPT !.set = TRUE] IN
       mats' = [n \in DOMAIN mats \cup {name} |->
                  IF n = name THEN m ELSE mats[n]]
  /\ IF i = Len(MatNames)
       THEN pc' = Succ(pc) /\ i' = 0
       ELSE pc' = pc /\ i' = i + 1
  /\ Enter("materials")
  /\ UNCHANGED <<todo, list, objs, datas, nextId, py, scene, host, exported,
                 printed, faultAt>>

\* ------------------------------------------------------ creating objects
\* obj.name = wanted: the host keeps names unique; when another object has
\* the name, the object being named gets the first free numeric suffix.
NewName(wanted) ==
  LET taken(n) == \E o \in Ids : objs[o].name = n IN
  IF ~taken(wanted)
    THEN wanted
    ELSE LET free(s) == ~taken([wanted EXCEPT !.suf = s])
             s0 == CHOOSE s \in 1 .. Cardinality(Ids) + 1 :
                     free(s) /\ \A t \in 1 .. s - 1 : ~free(t)
         IN [wanted EXCEPT !.suf = s0]

Obj(type, name, location, rotation) ==
  [name |-> NewName(name), type |-> type, selectable |-> TRUE, parent |-> 0,
   loc |-> location, rot |-> rotation, scale |-> One3, data |-> nextId,
   made |-> location, pre |-> FALSE]

Data(type, dims, slots, attr) ==
  [type |-> type, dims |-> dims, slots |-> slots, attr |-> attr]

\* if material: ... materials.append(material)      ("" stands for None)
Slots(material) == IF material = "" THEN << >> ELSE <<material>>

\* bpy.ops.object.transform_apply(scale=True) on the selected object o with
\* mesh d: location and rotation are applied too (their defaults are True).
AppliedObj(o) == [o EXCEPT !.loc = Zero3, !.rot = Zero3, !.scale = One3]
AppliedData(o, d) == [d EXCEPT !.dims = ScaleDims(d.dims, o.scale)]

\* obj.scale = (size/2, size/2, size/2)
CubeScale(size) == size \div 2

\* The object and mesh add_mesh_cube returns.
cube_obj(name, location, rotation) ==
  AppliedObj(Obj("MESH", name, location, rotation))
cube_data(size, material) ==
  AppliedData(
    [scale |-> <<CubeScale(size), CubeScale(size), CubeScale(size)>>],
    Data("MESH", UnitCube, Slots(material), << >>))

\* obj.scale = s; transform_apply(scale=True) on the object just made.
rescaled(d, s) == AppliedData([scale |-> s], d)

\* The object and mesh add_plane returns.
plane_obj(name, location) == AppliedObj(Obj("MESH", name, location, Zero3))
plane_data(size_x, size_y, thickness, material) ==
  AppliedData(
    [scale |-> <<CubeScale(size_x), CubeScale(size_y), CubeScale(thickness)>>],
    Data("MESH", UnitCube, Slots(material), << >>))

\* The object and mesh add_cylinder returns.
cylinder_obj(name, location) == Obj("MESH", name, location, Zero3)
cylinder_data(radius, depth, material) ==
  Data("MESH", <<2000 * radius, 2000 * radius, 1000 * depth>>,
       Slots(material), << >>)

\* The object and mesh add_torus returns.
torus_obj(name, location, rotation) == Obj("MESH", name, location, rotation)
torus_data(major_radius, minor_radius, material) ==
  Data("MESH",
       <<2000 * (major_radius + minor_radius),
         2000 * (major_radius + minor_radius), 2000 * minor_radius>>,
       Slots(material), << >>)

\* The object and curve add_bezier_cable returns.
cable_obj(name) == Obj("CURVE", name, Zero3, Zero3)
cable_data(points, material) == Data("CURVE", Zero3, Slots(material), points)

\* The host adds object o with data block d.  A primitive operator leaves
\* the new object as the only selected one; objects.new + link does not
\* touch the selection.
Create(o, d, byOperator) ==
  /\ objs' = [x \in Ids \cup {nextId} |-> IF x = nextId THEN o ELSE objs[x]]
  /\ datas' = [x \in DOMAIN datas \cup {nextId} |->
                 IF x = nextId THEN d ELSE datas[x]]
  /\ nextId' = nextId + 1
  /\ scene' = IF byOperator THEN [scene EXCEPT !.selected = {nextId}]
                            ELSE scene

Loc(o) == objs[o].loc

\* ------------------------------------------------------------ geometry
AddBase ==
  /\ pc = "base"
  /\ Create(plane_obj(Nm("WoodenBase", 0), <<0, 0, 0 - 10000>>),
            plane_data(300000, 300000, 20000, "Wood"), TRUE)
  /\ py' = [py EXCEPT !.base = nextId]
  /\ pc' = Succ(pc)
  /\ Enter("geometry")
  /\ UNCHANGED <<i, todo, list, mats, host, exported, printed, faultAt>>

AddShaft ==
  /\ pc = "shaft"
  /\ Create(cylinder_obj(Nm("Shaft", 0),
                         <<0, 0, shaft_height \div 2 - 10000>>),
            cylinder_data(8000, shaft_height, "Steel"), TRUE)
  /\ py' = [py EXCEPT !.shaft = nextId]
  /\ pc' = Succ(pc)
  /\ Enter("geometry")
  /\ UNCHANGED <<i, todo, list, mats, host, exported, printed, faultAt>>

\* disk = add_cylinder(...); mag_z = disk.location.z + ...
AddDisk ==
  /\ pc = "disk"
  /\ LET z == Loc(py.shaft)[3] + shaft_height \div 2
              + disk_thickness \div 2 - 10000 IN
       /\ Create(cylinder_obj(Nm("RotatingDisk", 0), <<0, 0, z>>),
                 cylinder_data(disk_radius, disk_thickness, "Steel"), TRUE)
       /\ py' = [py EXCEPT !.disk = nextId,
                           !.mag_z = z + disk_thickness \div 2
                                       + mag_size \div 2 - 10000]
  /\ pc' = Succ(pc)
  /\ i' = 0
  /\ Enter("geometry")
  /\ UNCHANGED <<todo, list, mats, host, exported, printed, faultAt>>

\* mat = mat_magnet_red if i % 2 == 0 else mat_magnet_blue
MagnetMat(k) == IF k % 2 = 0 THEN "MagnetRed" ELSE "MagnetBlue"

\* for i in range(num_magnets): one iteration.  coil_z is read after the
\* last one.
AddMagnet ==
  /\ pc = "magnets"
  /\ LET radius_pos == disk_radius - mag_size \div 2 - 5000
         x == TrigTimes(CosE6(i), radius_pos)
         y == TrigTimes(SinE6(i), radius_pos)
         mag == cube_obj(Nm("Magnet_", i + 1), <<x, y, py.mag_z>>,
                         <<0, 0, 45 * i>>)
         mesh == cube_data(mag_size, "")
     IN Create([mag EXCEPT !.rot = <<0, 0, 45 * i>>],
               [mesh EXCEPT !.slots = Append(mesh.slots, MagnetMat(i))],
               TRUE)
  /\ IF i + 1 = num_magnets
       THEN /\ pc' = Succ(pc)
            /\ i' = 0
            /\ py' = [py EXCEPT !.coil_z = Loc(py.disk)[3]]
       ELSE /\ pc' = pc
            /\ i' = i + 1
            /\ UNCHANGED py
  /\ Enter("geometry")
  /\ UNCHANGED <<todo, list, mats, host, exported, printed, faultAt>>

\* Position of coil / wire j: (cos(ang) * coil_major, sin(ang) * coil_major,
\* coil_z) with ang = j * pi/2.
CoilPos(j) ==
  <<TrigTimes(CosE6(2 * j), coil_major), TrigTimes(SinE6(2 * j), coil_major),
    py.coil_z>>

AddCoil ==
  /\ pc = "coils"
  /\ Create(torus_obj(Nm("Coil_", i + 1), CoilPos(i), <<90, 0, 90 * i>>),
            torus_data(coil_major, coil_minor, "CoilYellow"), TRUE)
  /\ IF i + 1 = num_coils THEN pc' = Succ(pc) /\ i' = 0
                          ELSE pc' = pc /\ i' = i + 1
  /\ Enter("geometry")
  /\ UNCHANGED <<todo, list, mats, py, host, exported, printed, faultAt>>

AddWire ==
  /\ pc = "wires"
  /\ Create(torus_obj(Nm("Wire_", i + 1), CoilPos(i), <<90, 0, 90 * i>>),
            torus_data(coil_major, (coil_minor * 35) \div 100, "Copper"), TRUE)
  /\ IF i + 1 = num_coils THEN pc' = Succ(pc) /\ i' = 0
                          ELSE pc' = pc /\ i' = i + 1
  /\ Enter("geometry")
  /\ UNCHANGED <<todo, list, mats, py, host, exported, printed, faultAt>>

\* pcb = add_mesh_cube(...); pcb.scale = ...; transform_apply(scale=True)
AddPCB ==
  /\ pc = "pcb"
  /\ Create(cube_obj(Nm("PCB", 0), <<pcb_x, pcb_y, 10000>>, Zero3),
            rescaled(cube_data(60000, "PCB"), <<30000, 20000, 1500>>), TRUE)
  /\ py' = [py EXCEPT !.pcb = nextId]
  /\ pc' = Succ(pc)
  /\ Enter("geometry")
  /\ UNCHANGED <<i, todo, list, mats, host, exported, printed, faultAt>>

AddRect ==
  /\ pc = "rect"
  /\ Create(cube_obj(Nm("BridgeRectifier", 0),
                     <<pcb_x + 12000, pcb_y, Loc(py.pcb)[3] + 8000>>, Zero3),
            cube_data(12000, "Plastic"), TRUE)
  /\ pc' = Succ(pc)
  /\ Enter("geometry")
  /\ UNCHANGED <<i, todo, list, mats, py, host, exported, printed, faultAt>>

AddHeatSinkBase ==
  /\ pc = "hs_base"
  /\ Create(cube_obj(Nm("HeatSinkBase", 0),
                     <<pcb_x - 12000, pcb_y, Loc(py.pcb)[3] + 8000>>, Zero3),
            rescaled(cube_data(16000, "HeatSink"), <<8000, 6000, 1000>>),
            TRUE)
  /\ py' = [py EXCEPT !.hs_base = nextId]
  /\ pc' = Succ(pc)
  /\ i' = 0
  /\ Enter("geometry")
  /\ UNCHANGED <<todo, list, mats, host, exported, printed, faultAt>>

AddFin ==
  /\ pc = "fins"
  /\ LET fx == Loc(py.hs_base)[1]
         fy == Loc(py.hs_base)[2] - 4000 + i * 2000
         fz == Loc(py.hs_base)[3] + 3000
     IN Create(cube_obj(Nm("Fin_", i + 1), <<fx, fy, fz>>, Zero3),
               rescaled(cube_data(3000, "HeatSink"), <<1500, 500, 3000>>),
               TRUE)
  /\ IF i + 1 = num_fins THEN pc' = Succ(pc) /\ i' = 0
                         ELSE pc' = pc /\ i' = i + 1
  /\ Enter("geometry")
  /\ UNCHANGED <<todo, list, mats, py, host, exported, printed, faultAt>>

AddBattery ==
  /\ pc = "battery"
  /\ Create(cube_obj(Nm("Battery12V", 0),
                     <<0 - 90000, 0 - 70000, 20000>>, Zero3),
            rescaled(cube_data(50000, "BatteryBlue"), <<25000, 10000, 15000>>),
            TRUE)
  /\ py' = [py EXCEPT !.battery = nextId]
  /\ pc' = Succ(pc)
  /\ Enter("geometry")
  /\ UNCHANGED <<i, todo, list, mats, host, exported, printed, faultAt>>

AddInverter ==
  /\ pc = "inverter"
  /\ Create(cube_obj(Nm("Inverter500W", 0),
                     <<0 - 90000, 70000, 20000>>, Zero3),
            rescaled(cube_data(120000, "InverterGray"),
                     <<60000, 30000, 20000>>),
            TRUE)
  /\ py' = [py EXCEPT !.inverter = nextId]
  /\ pc' = Succ(pc)
  /\ Enter("geometry")
  /\ UNCHANGED <<i, todo, list, mats, host, exported, printed, faultAt>>

\* -------------------------------------------------------------- cables
\* battery.location + Vector((0.03, 0, 0.01)) and the like.
CableFrom(o, dx) == VAdd(Loc(o), <<dx, 0, 10000>>)

AddCab1 ==
  /\ pc = "cab1"
  /\ Create(cable_obj(Nm("Cable_batt_inv", 0)),
            cable_data(<<CableFrom(py.battery, 30000),
                         CableFrom(py.inverter, 0 - 30000)>>, "CableRed"),
            FALSE)
  /\ pc' = Succ(pc)
  /\ Enter("geometry")
  /\ UNCHANGED <<i, todo, list, mats, py, host, exported, printed, faultAt>>

AddCab2 ==
  /\ pc = "cab2"
  /\ Create(cable_obj(Nm("Cable_inv_pcb", 0)),
            cable_data(<<CableFrom(py.inverter, 30000),
                         CableFrom(py.pcb, 0 - 30000)>>, "CableBlack"),
            FALSE)
  /\ pc' = Succ(pc)
  /\ Enter("geometry")
  /\ UNCHANGED <<i, todo, list, mats, py, host, exported, printed, faultAt>>

\* bpy.data.objects iterates in name order; within one stem that is the
\* order of (number, suffix).
NameLess(a, b) == a.k < b.k \/ (a.k = b.k /\ a.suf < b.suf)

\* The objects of S (all of one stem) in name order: the n-th is the one
\* with n-1 objects of S before it.
SortByName(S) ==
  [n \in 1 .. Cardinality(S) |->
     CHOOSE o \in S :
       Cardinality({q \in S : NameLess(objs[q].name, objs[o].name)}) = n - 1]

\* [obj for obj in bpy.data.objects if obj.name.startswith(prefix)]
NamedWith(prefix) ==
  SortByName({o \in Ids : startswith(objs[o].name, prefix)})

\* The list the coil-cable loop runs over is built before the loop starts.
CableList ==
  /\ pc = "cable_list"
  /\ list' = NamedWith("Coil_")
  /\ i' = 0
  /\ pc' = IF list' = << >> THEN Succ(Succ(pc)) ELSE Succ(pc)
  /\ Enter("geometry")
  /\ UNCHANGED <<todo, objs, datas, mats, nextId, py, scene, host, exported,
                 printed, faultAt>>

\* One iteration of the coil-cable loop: idx = i, coil = list[i + 1].  Both
\* cables are made with objects.new, one after the other.
AddCablePair ==
  /\ pc = "cables"
  /\ LET coil_pos == CoilPos(i)
         p_start == VAdd(Loc(py.pcb), <<0, 0, 10000>>)
         red == cable_obj(Nm("Cable_r_", i + 1))
         redData == cable_data(<<p_start, VAdd(coil_pos, <<0, 0, 20000>>)>>,
                               "CableRed")
         black == [cable_obj(Nm("Cable_b_", i + 1)) EXCEPT !.data = nextId + 1]
         blackData == cable_data(<<CableFrom(py.battery, 30000),
                                   VSub(coil_pos, <<0, 0, 20000>>)>>,
                                 "CableBlack")
     IN /\ objs' = [x \in Ids \cup {nextId, nextId + 1} |->
                      IF x = nextId THEN red
                      ELSE IF x = nextId + 1 THEN black ELSE objs[x]]
        /\ datas' = [x \in DOMAIN datas \cup {nextId, nextId + 1} |->
                       IF x = nextId THEN redData
                       ELSE IF x = nextId + 1 THEN blackData ELSE datas[x]]
        /\ nextId' = nextId + 2
  /\ IF i + 1 = Len(list) THEN pc' = Succ(pc) /\ i' = 0
                          ELSE pc' = pc /\ i' = i + 1
  /\ Enter("geometry")
  /\ UNCHANGED <<todo, list, mats, py, scene, host, exported, printed, faultAt>>

\* ------------------------------------------------------------- parenting
\* disk.parent = shaft
ParentDisk ==
  /\ pc = "parent_disk"
  /\ objs' = [objs EXCEPT ![py.disk].parent = py.shaft]
  /\ pc' = Succ(pc)
  /\ Enter("geometry")
  /\ UNCHANGED <<i, todo, list, datas, mats, nextId, py, scene, host, exported,
                 printed, faultAt>>

ParentList ==
  /\ pc = "parent_list"
  /\ list' = NamedWith("Magnet_")
  /\ i' = 0
  /\ pc' = IF list' = << >> THEN Succ(Succ(pc)) ELSE Succ(pc)
  /\ Enter("geometry")
  /\ UNCHANGED <<todo, objs, datas, mats, nextId, py, scene, host, exported,
                 printed, faultAt>>

\* o.parent = disk for one o of the list.
ParentMagnet ==
  /\ pc = "parent_magnets"
  /\ objs' = [objs EXCEPT ![list[i + 1]].parent = py.disk]
  /\ IF i + 1 = Len(list) THEN pc' = Succ(pc) /\ i' = 0
                          ELSE pc' = pc /\ i' = i + 1
  /\ Enter("geometry")
  /\ UNCHANGED <<todo, list, datas, mats, nextId, py, scene, host, exported,
                 printed, faultAt>>

\* ------------------------------------------------------ camera and lights
AddCamera ==
  /\ pc = "camera"
  /\ objs' = [x \in Ids \cup {nextId} |->
                IF x = nextId
                  THEN Obj("CAMERA", Nm("Camera", 0),
                           <<600000, 0 - 600000, 450000>>, <<60, 0, 45>>)
                  ELSE objs[x]]
  /\ datas' = [x \in DOMAIN datas \cup {nextId} |->
                 IF x = nextId THEN Data("CAMERA", Zero3, << >>, << >>)
                               ELSE datas[x]]
  /\ nextId' = nextId + 1
  /\ scene' = [scene EXCEPT !.camera = nextId]
  /\ pc' = Succ(pc)
  /\ Enter("lights")
  /\ UNCHANGED <<i, todo, list, mats, py, host, exported, printed, faultAt>>

\* lights.new(type='AREA'); energy; objects.new; location; data.size; link
AddLight(at, name, energy, location, size) ==
  /\ pc = at
  /\ Create(Obj("LIGHT", Nm(name, 0), location, Zero3),
            Data("LIGHT", Zero3, << >>, <<energy, size>>), FALSE)
  /\ pc' = Succ(pc)
  /\ Enter("lights")
  /\ UNCHANGED <<i, todo, list, mats, py, host, exported, printed, faultAt>>

AddKeyLight ==
  AddLight("key", "KeyLight", 1200, <<500000, 0 - 500000, 500000>>, 400000)
AddFillLight ==
  AddLight("fill", "FillLight", 400, <<0 - 400000, 0 - 300000, 400000>>,
           300000)
AddRimLight ==
  AddLight("rim", "RimLight", 300, <<0 - 500000, 500000, 500000>>, 300000)

\* world.use_nodes = True
SetWorldNodes ==
  /\ pc = "world_nodes"
  /\ scene' = [scene EXCEPT !.world_nodes = TRUE]
  /\ pc' = Succ(pc)
  /\ Enter("lights")
  /\ UNCHANGED <<i, todo, list, objs, datas, mats, nextId, py, host, exported,
                 printed, faultAt>>

\* bg = nodes.get('Background'); bg.inputs[...] = ...: raises when bg is None
SetBackground ==
  /\ pc = "world_bg"
  /\ host.background
  /\ scene' = [scene EXCEPT !.background = "gray 0.03, strength 0.6"]
  /\ pc' = Succ(pc)
  /\ Enter("lights")
  /\ UNCHANGED <<i, todo, list, objs, datas, mats, nextId, py, host, exported,
                 printed, faultAt>>

\* ------------------------------------------------------ render and export
SetRender ==
  /\ pc = "render"
  /\ scene' = [scene EXCEPT !.render = "CYCLES 128 CPU Filmic"]
  /\ pc' = Succ(pc)
  /\ Enter("render")
  /\ UNCHANGED <<i, todo, list, objs, datas, mats, nextId, py, host, exported,
                 printed, faultAt>>

\* select_all(action='DESELECT'); obj.select_set(True) for every object: an
\* object that is not selectable stays unselected.
SelectAll ==
  /\ pc = "select"
  /\ scene' = [scene EXCEPT !.selected = {o \in Ids : objs[o].selectable}]
  /\ pc' = Succ(pc)
  /\ Enter("export")
  /\ UNCHANGED <<i, todo, list, objs, datas, mats, nextId, py, host, exported,
                 printed, faultAt>>

\* export_scene.gltf(filepath=..., export_format='GLB'): the whole scene is
\* written (use_selection is left at False); raises when the path is bad.
Export ==
  /\ pc = "export"
  /\ host.path_ok
  /\ exported' = Append(exported, Ids)
  /\ pc' = Succ(pc)
  /\ Enter("export")
  /\ UNCHANGED <<i, todo, list, objs, datas, mats, nextId, py, scene, host,
                 printed, faultAt>>

PrintExported ==
  /\ pc = "print1"
  /\ printed' = Append(printed, "Exported to")
  /\ pc' = Succ(pc)
  /\ UNCHANGED <<i, todo, list, objs, datas, mats, nextId, py, scene, host,
                 exported, faultAt, phaseLog>>

PrintComplete ==
  /\ pc = "print2"
  /\ printed' = Append(printed, "Procedural model generation complete.")
  /\ pc' = Succ(pc)
  /\ UNCHANGED <<i, todo, list, objs, datas, mats, nextId, py, scene, host,
                 exported, faultAt, phaseLog>>

\* ---------------------------------------------------------------- faults
\* The statement about to run raises: nothing catches it.
Raised ==
  /\ faultAt' = pc
  /\ pc' = OnFault(pc)
  /\ UNCHANGED <<i, todo, list, objs, datas, mats, nextId, py, scene, host,
                 exported, printed, phaseLog>>

\* Statements that must raise in the present state: principled is None in
\* create_material, bg is None in the world set-up, the export path is bad.
MustRaise ==
  \/ pc = "materials" /\ NoPrincipled(MatNames[i])
  \/ pc = "world_bg" /\ ~host.background
  \/ pc = "export" /\ ~host.path_ok

Raise == MustRaise /\ Raised

\* Any other host call may raise too (a missing API feature, a host crash).
HostFault == pc \notin {"done", "faulted"} /\ ~MustRaise /\ Raised

Run ==
  \/ CleanDelete \/ CleanMeshes \/ CleanMaterials \/ SetUnits
  \/ CreateMaterials \/ AddBase \/ AddShaft \/ AddDisk \/ AddMagnet
  \/ AddCoil \/ AddWire \/ AddPCB \/ AddRect \/ AddHeatSinkBase
  \/ AddFin \/ AddBattery \/ AddInverter \/ AddCab1 \/ AddCab2
  \/ CableList \/ AddCablePair \/ ParentDisk \/ ParentList
  \/ ParentMagnet \/ AddCamera \/ AddKeyLight \/ AddFillLight
  \/ AddRimLight \/ SetWorldNodes \/ SetBackground \/ SetRender
  \/ SelectAll \/ Export \/ PrintExported \/ PrintComplete

Next == Run \/ Raise \/ HostFault

Spec == Init /\ [][Next]_vars

\* The interpreter always executes the next statement, and a statement that
\* must raise does; a host call that merely may fail need not.
FairSpec == Spec /\ WF_vars(Run \/ Raise)

\* =================================================================== claims
\* Statement p has run to its end (for a loop: all its iterations).
Ran(p) ==
  IF pc = "faulted" THEN Pos(faultAt) > Pos(p) ELSE Pos(pc) > Pos(p)

Named(n) == {o \in Ids : objs[o].name = n}
WithStem(st) == {o \in Ids : startswith(objs[o].name, st)}
SlotsOf(o) == datas[objs[o].data].slots
DimsOf(o) == datas[objs[o].data].dims
Last(s) == s[Len(s)]
IsPrefix(s, t) ==
  Len(s) <= Len(t) /\ \A n \in 1 .. Len(s) : s[n] = t[n]

Phases == <<"clear", "materials", "geometry", "lights", "render", "export">>

\* World-space position: the object's location carried through its parents
\* (no parent in the scene is rotated or scaled).
RECURSIVE World(_)
World(o) ==
  IF objs[o].parent = 0 THEN objs[o].loc
  ELSE VAdd(World(objs[o].parent), objs[o].loc)

\* C1: the sections of the script run in the order clear, materials,
\* geometry, camera and lights, render settings, export, each once and none
\* re-entered; materials are defined only in the materials section, objects
\* are created only in the geometry and lights sections (cameras and lights
\* only in the latter), render settings change only in the render section;
\* the exporter is called at most once, exactly once in a run that reaches
\* the end, with all 13 materials defined; and once the exporter has run no
\* object, data block, material, parent link or scene setting changes.
C1_PhasesInOrder ==
  [][ /\ IsPrefix(phaseLog', Phases)
      /\ (DOMAIN mats' \ DOMAIN mats # {}) => Last(phaseLog') = "materials"
      /\ mats' # mats => Last(phaseLog') \in {"clear", "materials"}
      /\ \A o \in DOMAIN objs' \ DOMAIN objs :
           /\ Last(phaseLog') \in {"geometry", "lights"}
           /\ objs'[o].type \in {"CAMERA", "LIGHT"}
                <=> Last(phaseLog') = "lights"
      /\ scene'.render # scene.render => Last(phaseLog') = "render"
      /\ Len(exported') <= 1
      /\ exported # << >> =>
           /\ UNCHANGED <<objs, datas, mats, scene>>
           /\ pc' \in {"print2", "done", "faulted"}
      /\ pc' = "done" =>
           /\ Len(exported') = 1
           /\ phaseLog' = Phases
           /\ \A n \in 1 .. Len(MatNames) :
                MatNames[n] \in DOMAIN mats' /\ mats'[MatNames[n]].set
    ]_vars

C1_Witness ==
  /\ pc = "done" /\ faultAt = ""
  /\ Len(exported) = 1 /\ phaseLog = Phases
  /\ \E o \in Ids : objs[o].type = "LIGHT"

\* C2: when a statement raises the script ends there: the step changes
\* nothing but the program point (no object or material made before is
\* removed), no step follows it, and if the statement is the exporter call
\* or an earlier one nothing has been printed.
C2_FaultEndsScript ==
  [][ /\ faultAt = ""
      /\ faultAt' # "" =>
           /\ pc' = "faulted"
           /\ faultAt' = pc
           /\ UNCHANGED <<objs, datas, mats, scene, exported, printed>>
           /\ Pos(faultAt') <= Pos("export") => printed' = << >>
    ]_vars

C2_Witness ==
  /\ pc = "faulted" /\ faultAt = "export" /\ ~host.path_ok
  /\ printed = << >> /\ exported = << >>
  /\ Cardinality(WithStem("Magnet_")) >= num_magnets

\* C3: after a run without fault the scene holds exactly 8 objects whose
\* name starts with Magnet_, named Magnet_1..Magnet_8, exactly 4 Coil_,
\* 4 Wire_ and 4 Fin_ objects named _1.._4, and no two objects share a name.
Exactly(st, n) ==
  /\ Cardinality(WithStem(st)) = n
  /\ {objs[o].name : o \in WithStem(st)} = {Nm(st, k) : k \in 1 .. n}

C3_FixedCounts ==
  pc = "done" =>
    /\ Exactly("Magnet_", num_magnets)
    /\ Exactly("Coil_", num_coils)
    /\ Exactly("Wire_", num_coils)
    /\ Exactly("Fin_", num_fins)
    /\ \A o, q \in Ids : objs[o].name = objs[q].name => o = q

\* C4: the object named WoodenBase measures 0.30 m x 0.30 m x 0.02 m, and a
\* cube made by add_mesh_cube(size=s) and not rescaled afterwards (the
\* magnets, the bridge rectifier) has edge s.
C4_LiteralSizes ==
  pc = "done" =>
    /\ \A o \in Named(Nm("WoodenBase", 0)) :
         DimsOf(o) = <<300000000, 300000000, 20000000>>
    /\ \A o \in Named(Nm("BridgeRectifier", 0)) :
         DimsOf(o) = <<12000000, 12000000, 12000000>>
    /\ \A o \in WithStem("Magnet_") :
         ~objs[o].pre =>
           DimsOf(o) = <<1000 * mag_size, 1000 * mag_size, 1000 * mag_size>>

\* C6: once clean_scene has run no object from before the script remains,
\* and every object the exporter writes was created by this run.
C6_SceneEmptied ==
  /\ Ran("clean_materials") => \A o \in Ids : ~objs[o].pre
  /\ \A n \in 1 .. Len(exported) : \A o \in exported[n] : ~objs[o].pre

\* C7: after the parenting statements the world-space position of the disk
\* and of every magnet is the location it was created at, and every coil is
\* at the world height of the disk.
C7_ParentingKeepsPlace ==
  Ran("parent_magnets") =>
    /\ World(py.disk) = objs[py.disk].made
    /\ \A o \in WithStem("Magnet_") : World(o) = objs[o].made
    /\ \A o \in WithStem("Coil_") :
         ~objs[o].pre => World(o)[3] = World(py.disk)[3]

\* C8: in the final scene the object named RotatingDisk has the object named
\* Shaft as parent, each Magnet_1..Magnet_8 has RotatingDisk as parent, no
\* other object has a parent, and no parent chain is longer than 2.
C8_ParentRelation ==
  pc = "done" =>
    /\ \A o \in Named(Nm("RotatingDisk", 0)) :
         objs[o].parent \in Named(Nm("Shaft", 0))
    /\ \A k \in 1 .. num_magnets :
         /\ Named(Nm("Magnet_", k)) # {}
         /\ \A o \in Named(Nm("Magnet_", k)) :
              objs[o].parent \in Named(Nm("RotatingDisk", 0))
    /\ \A o \in Ids :
         objs[o].parent # 0 =>
           objs[o].name \in
             {Nm("RotatingDisk", 0)} \cup
             {Nm("Magnet_", k) : k \in 1 .. num_magnets}
    /\ \A o \in Ids :
         LET p1 == objs[o].parent
             p2 == IF p1 = 0 THEN 0 ELSE objs[p1].parent
         IN p2 # 0 => objs[p2].parent = 0

\* C9: for each k in 1..4 there is exactly one cable Cable_r_k and one
\* Cable_b_k; the first ends 0.02 m above and the second 0.02 m below the
\* location of the object named Coil_k; the object the loop visits at index
\* k-1 is that coil; and there are 8 branch cables in all.
C9_CablesEndAtCoils ==
  pc = "done" =>
    /\ \A k \in 1 .. num_coils :
         /\ Cardinality(Named(Nm("Cable_r_", k))) = 1
         /\ Cardinality(Named(Nm("Cable_b_", k))) = 1
         /\ Cardinality(Named(Nm("Coil_", k))) = 1
         /\ \A c \in Named(Nm("Coil_", k)) :
              /\ \A r \in Named(Nm("Cable_r_", k)) :
                   datas[objs[r].data].attr[2] = VAdd(Loc(c), <<0, 0, 20000>>)
              /\ \A b \in Named(Nm("Cable_b_", k)) :
                   datas[objs[b].data].attr[2] = VSub(Loc(c), <<0, 0, 20000>>)
              /\ NamedWith("Coil_")[k] = c
    /\ Cardinality(WithStem("Cable_r_") \cup WithStem("Cable_b_"))
         = 2 * num_coils

\* C10: Magnet_k carries MagnetRed when k is odd and MagnetBlue when k is
\* even, every magnet has exactly one material slot, 4 magnets are red and
\* 4 blue, and ring neighbours (Magnet_8 and Magnet_1 included) differ.
C10_MagnetsAlternate ==
  pc = "done" =>
    /\ \A k \in 1 .. num_magnets :
         /\ Named(Nm("Magnet_", k)) # {}
         /\ \A o \in Named(Nm("Magnet_", k)) :
              /\ SlotsOf(o) =
                   <<IF k % 2 = 1 THEN "MagnetRed" ELSE "MagnetBlue">>
              /\ \A q \in Named(Nm("Magnet_", (k % num_magnets) + 1)) :
                   SlotsOf(q) # SlotsOf(o)
    /\ \A o \in WithStem("Magnet_") : Len(SlotsOf(o)) = 1
    /\ Cardinality({o \in WithStem("Magnet_") :
                      SlotsOf(o) = <<"MagnetRed">>}) = 4
    /\ Cardinality({o \in WithStem("Magnet_") :
                      SlotsOf(o) = <<"MagnetBlue">>}) = 4

\* C5: a run in which no host call raises reaches the end of the script.
C5_RunsToCompletion == <>(faultAt # "" \/ pc = "done")

C5_Witness ==
  /\ pc = "done" /\ faultAt = ""
  /\ \E o \in Ids : objs[o].pre
  /\ Cardinality(WithStem("Cable_r_")) > num_coils
====
